---- MODULE Spec2Model ----
(***************************************************************************)
(* markdown_image_downloader.py: planning and execution of the replacement *)
(* of remote image URLs in Markdown files by downloaded local files.       *)
(*                                                                         *)
(* Strings are sequences of one-character strings, so that len(), sorting, *)
(* substring tests, the regular expression of build_url_dest_regex and the *)
(* filename formatting are computed character by character.                *)
(***************************************************************************)
EXTENDS Integers, Sequences, FiniteSets, TLC

(***************************************************************************)
(* Bounds of the model.                                                    *)
(***************************************************************************)
\* the references (images, links) of the Markdown documents of one run
MaxItems == 2
\* the last second the wall clock reaches; a run starts at second 1
MaxClock == 2
\* the number of assign_uniquified_filename calls of one transformer
MaxCalls == 3

(***************************************************************************)
(* Characters and strings.                                                 *)
(***************************************************************************)
\* ord(c) of the characters the model uses
CodePoint(c) ==
  CASE c = "\n" -> 10 [] c = " " -> 32 [] c = "!" -> 33 [] c = "\"" -> 34
    [] c = "%" -> 37 [] c = "(" -> 40 [] c = ")" -> 41 [] c = "." -> 46
    [] c = "/" -> 47 [] c = "0" -> 48 [] c = "1" -> 49 [] c = "2" -> 50
    [] c = "3" -> 51 [] c = "4" -> 52 [] c = "5" -> 53 [] c = "6" -> 54
    [] c = "7" -> 55 [] c = "8" -> 56 [] c = "9" -> 57 [] c = ":" -> 58
    [] c = "<" -> 60 [] c = ">" -> 62 [] c = "?" -> 63 [] c = "[" -> 91
    [] c = "]" -> 93 [] c = "_" -> 95 [] c = "a" -> 97
    [] c = "d" -> 100 [] c = "e" -> 101 [] c = "g" -> 103 [] c = "h" -> 104 [] c = "j" -> 106
    [] c = "m" -> 109 [] c = "n" -> 110 [] c = "p" -> 112 [] c = "q" -> 113
    [] c = "t" -> 116 [] c = "v" -> 118 [] c = "x" -> 120

\* a < b for Python strings: by code point, a proper prefix first
RECURSIVE StrLess(_, _)
StrLess(a, b) ==
  IF b = <<>> THEN FALSE
  ELSE IF a = <<>> THEN TRUE
  ELSE IF a[1] = b[1] THEN StrLess(Tail(a), Tail(b))
  ELSE CodePoint(a[1]) < CodePoint(b[1])

\* s[i:] starts with w  (i is 1-based)
HasAt(s, i, w) ==
  /\ i >= 1
  /\ i + Len(w) - 1 <= Len(s)
  /\ \A k \in 1..Len(w) : s[i + k - 1] = w[k]

\* s.startswith(w)
StartsWith(s, w) == HasAt(s, 1, w)

\* sub in s, as url.count(sub) > 0 decides it
Contains(s, sub) == \E i \in 1..(Len(s) + 1) : HasAt(s, i, sub)

\* s.replace(a, b) for a single character a
RECURSIVE Replace(_, _, _)
Replace(s, a, b) ==
  IF s = <<>> THEN <<>>
  ELSE (IF s[1] = a THEN b ELSE <<s[1]>>) \o Replace(Tail(s), a, b)

\* the least index >= i of a character of set cs in s, Len(s) + 1 if none
RECURSIVE IndexOfAny(_, _, _)
IndexOfAny(s, cs, i) ==
  IF i > Len(s) THEN Len(s) + 1
  ELSE IF s[i] \in cs THEN i
  ELSE IndexOfAny(s, cs, i + 1)

\* the greatest index of character c in s, 0 if none
RECURSIVE LastIndexOf(_, _)
LastIndexOf(s, c) ==
  IF s = <<>> THEN 0
  ELSE IF s[Len(s)] = c THEN Len(s)
  ELSE LastIndexOf(SubSeq(s, 1, Len(s) - 1), c)

Digits == <<"0", "1", "2", "3", "4", "5", "6", "7", "8", "9">>

\* str(n) for an integer n >= 0
RECURSIVE IntToStr(_)
IntToStr(n) ==
  IF n < 10 THEN <<Digits[n + 1]>>
  ELSE IntToStr(n \div 10) \o <<Digits[(n % 10) + 1]>>

\* the characters \s matches
Whitespace == {" ", "\n"}

\* the least index >= i of s that is not whitespace, Len(s) + 1 if none
RECURSIVE SkipSpace(_, _)
SkipSpace(s, i) ==
  IF i > Len(s) THEN Len(s) + 1
  ELSE IF s[i] \in Whitespace THEN SkipSpace(s, i + 1)
  ELSE i

(***************************************************************************)
(* build_url_dest_regex: an opening parenthesis, any whitespace, the url   *)
(* taken literally (re.escape), any whitespace, a closing parenthesis.     *)
(* The index of the last character of the match that starts at i, 0 when   *)
(* the pattern does not match at i.  No url of the model starts or ends    *)
(* with whitespace, so the greedy \s* never has to give characters back.   *)
(***************************************************************************)
build_url_dest_regex(url, s, i) ==
  IF ~(i <= Len(s) /\ s[i] = "(") THEN 0
  ELSE LET j == SkipSpace(s, i + 1)
       IN IF ~HasAt(s, j, url) THEN 0
          ELSE LET k == SkipSpace(s, j + Len(url))
               IN IF k <= Len(s) /\ s[k] = ")" THEN k ELSE 0

\* len(re.findall(pattern, s)): the non-overlapping matches, left to right
RECURSIVE re_findall_count(_, _, _)
re_findall_count(url, s, i) ==
  IF i > Len(s) THEN 0
  ELSE LET e == build_url_dest_regex(url, s, i)
       IN IF e = 0 THEN re_findall_count(url, s, i + 1)
          ELSE 1 + re_findall_count(url, s, e + 1)

\* re.sub(pattern, replacement, s): every match is replaced
RECURSIVE re_sub(_, _, _, _)
re_sub(url, replacement, s, i) ==
  IF i > Len(s) THEN <<>>
  ELSE LET e == build_url_dest_regex(url, s, i)
       IN IF e = 0 THEN <<s[i]>> \o re_sub(url, replacement, s, i + 1)
          ELSE replacement \o re_sub(url, replacement, s, e + 1)

(***************************************************************************)
(* The Markdown parser (marko), as far as get_image_url_counts uses it:    *)
(* inline images ![alt](dest), ![alt](dest "title"), ![alt](<dest>), with  *)
(* optional whitespace inside the parentheses, reference-style images      *)
(* ![alt][label] with a definition "[label]: dest", and inline links       *)
(* [text](dest), which are not images.                                     *)
(***************************************************************************)
\* the "(dest)" or "(dest title)" part at index i: [ok, dest, end]
InlineDest(s, i) ==
  IF ~(i <= Len(s) /\ s[i] = "(") THEN [ok |-> FALSE, dest |-> <<>>, end |-> 0]
  ELSE
    LET j      == SkipSpace(s, i + 1)
        angled == j <= Len(s) /\ s[j] = "<"
        k      == IF angled THEN IndexOfAny(s, {">"}, j + 1)
                  ELSE IndexOfAny(s, Whitespace \cup {")"}, j)
        dest   == IF angled THEN SubSeq(s, j + 1, k - 1) ELSE SubSeq(s, j, k - 1)
        after  == IF angled THEN k + 1 ELSE k
        m      == SkipSpace(s, after)
        titled == m <= Len(s) /\ s[m] = "\""
        m2     == IF titled THEN SkipSpace(s, IndexOfAny(s, {"\""}, m + 1) + 1) ELSE m
    IN [ok |-> m2 <= Len(s) /\ s[m2] = ")", dest |-> dest, end |-> m2]

\* the destination of the first definition "[label]: dest" that starts a line
RECURSIVE RefDest(_, _, _)
RefDest(s, label, i) ==
  LET head == <<"[">> \o label \o <<"]", ":", " ">>
  IN IF i > Len(s) THEN [ok |-> FALSE, dest |-> <<>>]
     ELSE IF HasAt(s, i, head) /\ (i = 1 \/ s[i - 1] = "\n")
          THEN LET j == i + Len(head)
               IN [ok |-> TRUE,
                   dest |-> SubSeq(s, j, IndexOfAny(s, Whitespace, j) - 1)]
          ELSE RefDest(s, label, i + 1)

\* the dest of every marko.inline.Image below the document, in document order
RECURSIVE collect_image_elements(_, _)
collect_image_elements(s, i) ==
  IF i > Len(s) THEN <<>>
  ELSE IF s[i] = "!" /\ i < Len(s) /\ s[i + 1] = "["
  THEN LET k   == IndexOfAny(s, {"]"}, i + 2)
           inl == InlineDest(s, k + 1)
           lab == IF k < Len(s) /\ s[k + 1] = "["
                  THEN SubSeq(s, k + 2, IndexOfAny(s, {"]"}, k + 2) - 1)
                  ELSE <<>>
           ref == IF lab = <<>> THEN [ok |-> FALSE, dest |-> <<>>]
                  ELSE RefDest(s, lab, 1)
       IN IF inl.ok THEN <<inl.dest>> \o collect_image_elements(s, inl.end + 1)
          ELSE IF ref.ok
          THEN <<ref.dest>> \o collect_image_elements(s, k + Len(lab) + 3)
          ELSE collect_image_elements(s, i + 1)
  ELSE IF s[i] = "["
  THEN LET k   == IndexOfAny(s, {"]"}, i + 1)
           inl == InlineDest(s, k + 1)
       IN IF inl.ok THEN collect_image_elements(s, inl.end + 1)
          ELSE collect_image_elements(s, i + 1)
  ELSE collect_image_elements(s, i + 1)

Range(q) == {q[i] : i \in 1..Len(q)}

\* collections.Counter of the dests that start with 'http', as url :> count
get_image_url_counts(md_source) ==
  LET imgs == SelectSeq(collect_image_elements(md_source, 1),
                        LAMBDA d : StartsWith(d, <<"h", "t", "t", "p">>))
  IN [url \in Range(imgs) |-> Cardinality({i \in 1..Len(imgs) : imgs[i] = url})]

\* the number of matches of the url's pattern in the source, for each url
get_textual_counts(md_source, urls) ==
  [url \in urls |-> re_findall_count(url, md_source, 1)]

(***************************************************************************)
(* os.path and urllib.parse                                                *)
(***************************************************************************)
\* os.path.splitext(p) of a path without directory: <<root, ext>>
splitext(p) ==
  LET d == LastIndexOf(p, ".")
  IN IF d > 0 /\ (\E k \in 1..(d - 1) : p[k] # ".")
     THEN <<SubSeq(p, 1, d - 1), SubSeq(p, d, Len(p))>>
     ELSE <<p, <<>>>>

\* os.path.basename(p)
basename(p) == SubSeq(p, LastIndexOf(p, "/") + 1, Len(p))

\* os.path.join(a, b)
path_join(a, b) ==
  IF b # <<>> /\ b[1] = "/" THEN b
  ELSE IF a = <<>> \/ a[Len(a)] = "/" THEN a \o b
  ELSE a \o <<"/">> \o b

\* urllib.parse.urlparse(url).path for scheme://netloc/path?query#fragment
urlparse_path(url) ==
  LET c == IndexOfAny(url, {":"}, 1)
      n == IF HasAt(url, c, <<":", "/", "/">>)
           THEN IndexOfAny(url, {"/", "?", "#"}, c + 3)
           ELSE c + 1
  IN SubSeq(url, n, IndexOfAny(url, {"?", "#"}, n) - 1)

\* urllib.parse.unquote(s); %20 is the one escape the model's urls hold
RECURSIVE unquote(_)
unquote(s) ==
  IF s = <<>> THEN <<>>
  ELSE IF HasAt(s, 1, <<"%", "2", "0">>) THEN <<" ">> \o unquote(SubSeq(s, 4, Len(s)))
  ELSE <<s[1]>> \o unquote(Tail(s))

(***************************************************************************)
(* LogseqImageFilenameTransformer                                          *)
(***************************************************************************)
\* __init__: the roots of the existing filenames
existing_roots_of(existing_filenames) ==
  {splitext(basename(fn))[1] : fn \in existing_filenames}

\* line 150, root.replace(' ', '_'): the value is not assigned, root stays
root_after_replace(root) == root

\* a token captured once, when the run starts
timestamp_token_of_run(now) == IntToStr(1)

\* the timestamp token of one call: str(int(time.time())) read in the call
timestamp_token(now) == IntToStr(now)

\* a search that takes the first candidate, taken or not
unique_suffix_unchecked(root, existing, n) == n

\* the first suffix, counting from n, whose candidate root is not taken
RECURSIVE unique_suffix(_, _, _)
unique_suffix(root, existing, n) ==
  IF (root \o <<"_">> \o IntToStr(n)) \notin existing THEN n
  ELSE unique_suffix(root, existing, n + 1)

\* get_uniquified_filename: <<candidate_filename_root, ext>>
get_uniquified_filename(filename, existing, now) ==
  LET root == root_after_replace(splitext(filename)[1]) \o <<"_">> \o timestamp_token(now)
      ext  == Replace(splitext(filename)[2], ".", <<>>)
  IN <<root \o <<"_">> \o IntToStr(unique_suffix(root, existing, 0)), ext>>

(***************************************************************************)
(* The records                                                             *)
(***************************************************************************)
\* FileOccurrenceRecord(filepath, num_image_elements, num_extra_textual_occurrences)
FileOccurrenceRecord(filepath, num_image_elements, num_extra) ==
  [filepath |-> filepath,
   num_image_elements |-> num_image_elements,
   num_extra_textual_occurrences |-> num_extra,
   replace_successful |-> FALSE]

\* FileOccurrenceRecord.replacement_unsafe
replacement_unsafe(file_occurrence) ==
  file_occurrence.num_extra_textual_occurrences > 0

\* ImageUrlRecord(url, passes_filters, original_filename)
ImageUrlRecord(url, passes_filters, original_filename) ==
  [url |-> url,
   passes_filters |-> passes_filters,
   original_filename |-> original_filename,
   local_basename |-> <<>>,
   local_ext |-> <<>>,
   download_successful |-> FALSE,
   file_occurrences |-> <<>>]

\* ImageUrlRecord.local_filename
local_filename(img) ==
  IF img.local_ext # <<>> THEN img.local_basename \o <<".">> \o img.local_ext
  ELSE img.local_basename

\* ImageUrlRecord.get_file_occurrence: the index of the first record of the
\* filepath in file_occurrences, 0 for None
get_file_occurrence(img, filepath) ==
  LET hits == {i \in 1..Len(img.file_occurrences) :
                 img.file_occurrences[i].filepath = filepath}
  IN IF hits = {} THEN 0 ELSE CHOOSE i \in hits : \A j \in hits : i <= j

\* _check_passes_filters
check_passes_filters(url, filters) ==
  IF filters = <<>> THEN TRUE
  ELSE \E i \in 1..Len(filters) : Contains(url, filters[i])

\* sorted(strings): ascending, one entry per member of the set
RECURSIVE sorted_strings(_)
sorted_strings(S) ==
  IF S = {} THEN <<>>
  ELSE LET m == CHOOSE x \in S : \A y \in S \ {x} : StrLess(x, y)
       IN <<m>> \o sorted_strings(S \ {m})

\* list.sort(key=url) of urls: stable insertion of x behind what is <= x
RECURSIVE insert_by_url(_, _)
insert_by_url(x, q) ==
  IF q = <<>> THEN <<x>>
  ELSE IF StrLess(x, q[1]) THEN <<x>> \o q
  ELSE <<q[1]>> \o insert_by_url(x, Tail(q))

RECURSIVE sort_by_url(_, _)
sort_by_url(q, acc) ==
  IF q = <<>> THEN acc ELSE sort_by_url(Tail(q), insert_by_url(q[1], acc))

\* list.sort(reverse=True, key=len(url)): stable, the longest url first
RECURSIVE insert_by_len_desc(_, _)
insert_by_len_desc(x, q) ==
  IF q = <<>> THEN <<x>>
  ELSE IF Len(q[1]) >= Len(x) THEN <<q[1]>> \o insert_by_len_desc(x, Tail(q))
  ELSE <<x>> \o q

RECURSIVE sort_by_len_desc_acc(_, _)
sort_by_len_desc_acc(q, acc) ==
  IF q = <<>> THEN acc
  ELSE sort_by_len_desc_acc(Tail(q), insert_by_len_desc(q[1], acc))

\* a rewrite that leaves the urls in the ascending url order it finds them in
sort_omitted(image_urls) == image_urls

\* line 303: image_url_records.sort(reverse=True, key=lambda x: len(x.url))
sort_by_len_desc(image_urls) == sort_by_len_desc_acc(image_urls, <<>>)

\* an iteration that forgets the filter
iterate_unfiltered(records, filtered) == sorted_strings(DOMAIN records)

\* _iterate_image_url_records: the urls of the records, ascending, the
\* records that do not pass the filters left out when filtered is set
iterate_image_url_records(records, filtered) ==
  SelectSeq(sorted_strings(DOMAIN records),
            LAMBDA u : ~(filtered /\ ~records[u].passes_filters))

\* q repeated n times
RECURSIVE repeat(_, _)
repeat(q, n) == IF n <= 0 THEN <<>> ELSE q \o repeat(q, n - 1)

\* imgs_grouped_by_file[filepath] as the loop over the records fills it
RECURSIVE grouped_imgs(_, _, _)
grouped_imgs(records, urls, filepath) ==
  IF urls = <<>> THEN <<>>
  ELSE LET occs == records[urls[1]].file_occurrences
           n == Cardinality({i \in 1..Len(occs) : occs[i].filepath = filepath})
       IN repeat(<<urls[1]>>, n) \o grouped_imgs(records, Tail(urls), filepath)

\* _get_image_url_records_by_file: <<[filepath, imgs]>>, ascending filepath,
\* each imgs sorted by url
get_image_url_records_by_file(records, filtered) ==
  LET urls  == iterate_image_url_records(records, filtered)
      paths == UNION {{records[u].file_occurrences[j].filepath :
                         j \in 1..Len(records[u].file_occurrences)} : u \in Range(urls)}
      files == sorted_strings(paths)
  IN [i \in 1..Len(files) |->
        [filepath |-> files[i],
         imgs |-> sort_by_url(grouped_imgs(records, urls, files[i]), <<>>)]]

(***************************************************************************)
(* The reports: one entry per line group of the report strings             *)
(***************************************************************************)
\* get_execution_plan_string: for each file and each of its urls, the plan
RECURSIVE plan_for_file(_, _, _)
plan_for_file(records, filepath, imgs) ==
  IF imgs = <<>> THEN <<>>
  ELSE LET img == records[imgs[1]]
           occ == img.file_occurrences[get_file_occurrence(img, filepath)]
           line == IF replacement_unsafe(occ) THEN "unsafe, not attempted"
                   ELSE IF img.local_ext = <<>> THEN "attempt, extension not known yet"
                   ELSE "attempt"
       IN <<[filepath |-> filepath, url |-> img.url, line |-> line,
             local_filename |-> local_filename(img)]>>
          \o plan_for_file(records, filepath, Tail(imgs))

RECURSIVE plan_entries(_, _)
plan_entries(records, by_file) ==
  IF by_file = <<>> THEN <<>>
  ELSE plan_for_file(records, by_file[1].filepath, by_file[1].imgs)
       \o plan_entries(records, Tail(by_file))

get_execution_plan_string(records) ==
  plan_entries(records, get_image_url_records_by_file(records, TRUE))

\* get_execution_summary_string, the download part: the urls that failed
download_summary(records) ==
  LET urls == SelectSeq(iterate_image_url_records(records, TRUE),
                        LAMBDA u : ~records[u].download_successful)
  IN [i \in 1..Len(urls) |->
        [filepath |-> <<>>, url |-> urls[i], line |-> "failed to download",
         local_filename |-> <<>>]]

\* get_execution_summary_string, the replacement part of one file
RECURSIVE summary_for_file(_, _, _)
summary_for_file(records, filepath, imgs) ==
  IF imgs = <<>> THEN <<>>
  ELSE LET img == records[imgs[1]]
           occ == img.file_occurrences[get_file_occurrence(img, filepath)]
           line == IF ~img.download_successful THEN "failed to replace: download failed"
                   ELSE IF replacement_unsafe(occ) THEN "failed to replace: unsafe"
                   ELSE "failed to replace"
           entry == IF occ.replace_successful THEN <<>>
                    ELSE <<[filepath |-> filepath, url |-> img.url, line |-> line,
                            local_filename |-> local_filename(img)]>>
       IN entry \o summary_for_file(records, filepath, Tail(imgs))

RECURSIVE summary_entries(_, _)
summary_entries(records, by_file) ==
  IF by_file = <<>> THEN <<>>
  ELSE summary_for_file(records, by_file[1].filepath, by_file[1].imgs)
       \o summary_entries(records, Tail(by_file))

get_execution_summary_string(records) ==
  download_summary(records)
  \o summary_entries(records, get_image_url_records_by_file(records, TRUE))

(***************************************************************************)
(* The inputs of a run                                                     *)
(***************************************************************************)
Http == <<"h", "t", "t", "p", ":", "/", "/", "h">>
\* http://h/p%20q.j : the extension is in the url
UrlJ == Http \o <<"/", "p", "%", "2", "0", "q", ".", "j">>
\* http://h/p%20q : no extension, a proper prefix of UrlJ
UrlP == Http \o <<"/", "p", "%", "2", "0", "q">>
\* a relative image path, which is no url
RelPath == <<"p", ".", "j">>

\* the Markdown text of one reference to a url
Render(form, url) ==
  CASE form = "img"      -> <<"!", "[", "a", "]", "(">> \o url \o <<")">>
    [] form = "imgws"    -> <<"!", "[", "a", "]", "(", " ">> \o url \o <<" ", ")">>
    [] form = "imgtitle" -> <<"!", "[", "a", "]", "(">> \o url \o <<" ", "\"", "t", "\"", ")">>
    [] form = "imgangle" -> <<"!", "[", "a", "]", "(", "<">> \o url \o <<">", ")">>
    [] form = "imgref"   -> <<"!", "[", "a", "]", "[", "x", "]", "\n", "\n",
                              "[", "x", "]", ":", " ">> \o url
    [] form = "link"     -> <<"[", "t", "]", "(">> \o url \o <<")">>

\* the Markdown texts of at most n references out of items, one per paragraph
RECURSIVE Texts(_, _)
Texts(items, n) ==
  IF n = 0 THEN {<<>>}
  ELSE LET shorter == Texts(items, n - 1)
       IN shorter \cup
          {Render(it[1], it[2]) \o (IF t = <<>> THEN <<>> ELSE <<"\n", "\n">> \o t) :
             it \in items, t \in shorter}

\* the references of the documents of a whole run
RunItems == {"img", "imgtitle", "link"} \X {UrlJ, UrlP}
\* every form of reference, for the analysis of one document
AllForms == {"img", "imgws", "imgtitle", "imgangle", "imgref", "link"}
AnalyzerItems == (AllForms \X {UrlJ, UrlP}) \cup {<<"img", RelPath>>}

\* the texts of the two documents of a run: MaxItems references in all
RunTexts ==
  UNION {Texts(RunItems, n) \X Texts(RunItems, MaxItems - n) : n \in 0..MaxItems}
\* the texts of the one document of an analysis
AnalyzerTexts == Texts(AnalyzerItems, MaxItems)

D1 == <<"d", "1">>
D2 == <<"d", "2">>
Paths == {D1, D2}
\* md_filepaths as glob.glob or a caller gives them: any order, repeats
FilepathInputs == {<<D1>>, <<D2, D1>>, <<D1, D1>>}
\* --url_substring_filters: none, or a list (any of which must occur)
FilterInputs == {<<>>, << <<"x", "x">>, <<"q", ".">> >>}
\* --markdown_dest_dir
markdown_dest_dir == <<"m">>
\* the files of --image_dest_dir before the run
ExistingPool == {<<"p", " ", "q", "_", "1", "_", "0", ".", "j">>,
                 <<"p", "_", "q", "_", "1", "_", "0">>,
                 <<"p", "_", "1", "_", "0", ".", "p", "n", "g">>}
\* the filenames a transformer is asked to uniquify
Filenames == {<<"p", " ", "q", ".", "j">>, <<"p", " ", "q">>, <<"p">>}
\* requests.get(url).status_code
StatusCodes == {200, 404}
\* imghdr.what(None, h=content): None, or an image type
SniffResults == {<<>>, <<"p", "n", "g">>, <<"j", "p", "e", "g">>}

(***************************************************************************)
(* The state                                                               *)
(***************************************************************************)
VARIABLES
  pc,                      \* the position of main
  dry_run,                 \* --dry_run
  md_filepaths,            \* ImageUrlReplacementPlan.md_filepaths
  url_substring_filters,   \* ImageUrlReplacementPlan.url_substring_filters
  docs,                    \* the file system: the text of each Markdown file
  dest_dir,                \* the file system: the filenames in image_dest_dir
  clock,                   \* int(time.time())
  image_url_records,       \* ImageUrlReplacementPlan.image_url_records
  existing_filename_roots, \* LogseqImageFilenameTransformer._existing_filename_roots
  assigned,                \* the assign_uniquified_filename calls so far
  queue,                   \* what the running for loop has still to visit
  groups,                  \* the (filepath, image_url_records) still to rewrite
  md_source,               \* the text of the file being rewritten
  cur,                     \* the urls still to visit in the file being rewritten
  plan_summary,            \* the plan report, once written
  execution_summary,       \* the execution report, once written
  trace                    \* the requests, file reads and writes, substitutions

vars == <<pc, dry_run, md_filepaths, url_substring_filters, docs, dest_dir, clock,
          image_url_records, existing_filename_roots, assigned, queue, groups,
          md_source, cur, plan_summary, execution_summary, trace>>

inputs == <<dry_run, md_filepaths, url_substring_filters>>

Event(op, path, url, n) == [op |-> op, path |-> path, url |-> url, n |-> n]

NoRecords == [u \in {} |-> 0]

\* the state of main before ImageUrlReplacementPlan is built
Init ==
  /\ pc = "analyze"
  /\ dry_run \in BOOLEAN
  /\ md_filepaths \in FilepathInputs
  /\ url_substring_filters \in FilterInputs
  /\ \E t \in RunTexts :
       docs = [p \in Paths |-> IF p \notin Range(md_filepaths) THEN <<>>
                               ELSE IF p = D1 THEN t[1] ELSE t[2]]
  /\ dest_dir = ExistingPool
  /\ clock = 1
  /\ image_url_records = NoRecords
  /\ existing_filename_roots = {}
  /\ assigned = <<>>
  /\ queue = md_filepaths
  /\ groups = <<>>
  /\ md_source = <<>>
  /\ cur = <<>>
  /\ plan_summary = <<>>
  /\ execution_summary = <<>>
  /\ trace = <<>>

\* the wall clock reaches the next second; the program reads it while it
\* assigns filenames
Tick ==
  /\ pc \in {"assign", "uniq"}
  /\ clock < MaxClock
  /\ clock' = clock + 1
  /\ UNCHANGED <<pc, inputs, docs, dest_dir, image_url_records,
                 existing_filename_roots, assigned, queue, groups, md_source, cur,
                 plan_summary, execution_summary, trace>>

\* _get_image_url_occurrences, one pass of the loop over md_filepaths
AnalyzeFile ==
  /\ pc = "analyze"
  /\ queue # <<>>
  /\ LET filepath == Head(queue)
         source == docs[filepath]
         image_url_counts == get_image_url_counts(source)
         url_textual_counts == get_textual_counts(source, DOMAIN image_url_counts)
         occurrence(url) ==
           FileOccurrenceRecord(filepath, image_url_counts[url],
                                url_textual_counts[url] - image_url_counts[url])
         record(url) ==
           IF url \in DOMAIN image_url_records THEN image_url_records[url]
           ELSE ImageUrlRecord(url, check_passes_filters(url, url_substring_filters),
                               basename(unquote(urlparse_path(url))))
     IN /\ image_url_records' =
             [url \in (DOMAIN image_url_records) \cup (DOMAIN image_url_counts) |->
                IF url \in DOMAIN image_url_counts
                THEN [record(url) EXCEPT !.file_occurrences = Append(@, occurrence(url))]
                ELSE image_url_records[url]]
        /\ trace' = Append(trace, Event("read", filepath, <<>>, 0))
  /\ queue' = Tail(queue)
  /\ UNCHANGED <<pc, inputs, docs, dest_dir, clock, existing_filename_roots, assigned,
                 groups, md_source, cur, plan_summary, execution_summary>>

\* _assign_local_filenames up to its loop: os.listdir and the transformer
AssignInit ==
  /\ pc = "analyze"
  /\ queue = <<>>
  /\ existing_filename_roots' = existing_roots_of(dest_dir)
  /\ queue' = iterate_image_url_records(image_url_records, TRUE)
  /\ pc' = "assign"
  /\ UNCHANGED <<inputs, docs, dest_dir, clock, image_url_records, assigned, groups,
                 md_source, cur, plan_summary, execution_summary, trace>>

\* assign_uniquified_filename(filename): <<root, ext>>, the root recorded
assign_uniquified_filename(filename) ==
  get_uniquified_filename(filename, existing_filename_roots, clock)

Assigned(filename, named) ==
  /\ existing_filename_roots' = existing_filename_roots \cup {named[1]}
  /\ assigned' = Append(assigned, [filename |-> filename, root |-> named[1],
                                   ext |-> named[2], now |-> clock])

\* _assign_local_filenames, one pass of its loop
AssignNext ==
  /\ pc = "assign"
  /\ queue # <<>>
  /\ LET img == image_url_records[Head(queue)]
         named == assign_uniquified_filename(img.original_filename)
     IN /\ image_url_records' =
             [image_url_records EXCEPT ![img.url] =
                [img EXCEPT !.local_basename = named[1], !.local_ext = named[2]]]
        /\ Assigned(img.original_filename, named)
  /\ queue' = Tail(queue)
  /\ UNCHANGED <<pc, inputs, docs, dest_dir, clock, groups, md_source, cur,
                 plan_summary, execution_summary, trace>>

\* main after the plan summary is written: a dry run prints it and ends
always_execute(dry) == "download"

after_plan(dry) == IF dry THEN "done" ELSE "download"

\* the records execute downloads before it rewrites any file (line 292)
downloads_but_last(records) ==
  LET all == iterate_image_url_records(records, TRUE)
  IN SubSeq(all, 1, Len(all) - 1)

execute_downloads(records) == iterate_image_url_records(records, TRUE)

\* main: the plan summary is built and written; then the dry run ends, and
\* a real run enters execute
WritePlan ==
  /\ pc = "assign"
  /\ queue = <<>>
  /\ plan_summary' = get_execution_plan_string(image_url_records)
  /\ pc' = after_plan(dry_run)
  /\ queue' = IF pc' = "download" THEN execute_downloads(image_url_records) ELSE <<>>
  /\ UNCHANGED <<inputs, docs, dest_dir, clock, image_url_records,
                 existing_filename_roots, assigned, groups, md_source, cur,
                 execution_summary, trace>>

\* line 250: the sniffed type as an extension, 'jpg' preferred to 'jpeg'
sniffed_ext(what) ==
  IF what = <<"j", "p", "e", "g">> THEN <<"j", "p", "g">> ELSE what

\* download without the return of lines 246-248
download_unsniffed(img, status, what) ==
  IF status # 200 THEN img
  ELSE IF img.local_ext # <<>> THEN [img EXCEPT !.download_successful = TRUE]
  ELSE [img EXCEPT !.local_ext = sniffed_ext(what), !.download_successful = TRUE]

\* ImageUrlRecord.download: the record after the call, for the status the
\* fetch returns and the type imghdr.what finds in the bytes (<<>> for None)
download(img, status, what) ==
  IF img.local_ext # <<>>
  THEN IF status # 200 THEN img
       ELSE [img EXCEPT !.download_successful = TRUE]
  ELSE IF status # 200 THEN img
       ELSE IF what = <<>> THEN img
       ELSE [img EXCEPT !.local_ext = sniffed_ext(what), !.download_successful = TRUE]

\* the calls download makes: requests.get, then imghdr.what when the
\* extension is unknown and the fetch returned 200
download_events(img, status, what) ==
  <<Event("fetch", <<>>, img.url, status)>>
    \o (IF img.local_ext = <<>> /\ status = 200
        THEN <<Event("sniff", <<>>, img.url, IF what = <<>> THEN 0 ELSE 1)>>
        ELSE <<>>)

\* ImageUrlRecord.download for the next record of execute's first loop; the
\* file is written just before download_successful is set
Download ==
  /\ pc = "download"
  /\ queue # <<>>
  /\ \E status \in StatusCodes, what \in SniffResults :
       LET img == image_url_records[Head(queue)]
           after == download(img, status, what)
       IN /\ trace' = trace \o download_events(img, status, what)
          /\ image_url_records' = [image_url_records EXCEPT ![img.url] = after]
          /\ dest_dir' = IF after.download_successful
                         THEN dest_dir \cup {local_filename(after)}
                         ELSE dest_dir
  /\ queue' = Tail(queue)
  /\ UNCHANGED <<pc, inputs, docs, clock, existing_filename_roots, assigned, groups,
                 md_source, cur, plan_summary, execution_summary>>

\* execute, the head of its second loop: the files and their records
BeginRewrite ==
  /\ pc = "download"
  /\ queue = <<>>
  /\ groups' = get_image_url_records_by_file(image_url_records, TRUE)
  /\ pc' = "rewrite"
  /\ UNCHANGED <<inputs, docs, dest_dir, clock, image_url_records,
                 existing_filename_roots, assigned, queue, md_source, cur,
                 plan_summary, execution_summary, trace>>

\* execute, lines 297-303: the next file is read and its records are sorted
RewriteOpen ==
  /\ pc = "rewrite"
  /\ groups # <<>>
  /\ md_source' = docs[Head(groups).filepath]
  /\ cur' = sort_by_len_desc(Head(groups).imgs)
  /\ trace' = Append(trace, Event("open", Head(groups).filepath, <<>>, 0))
  /\ pc' = "replace"
  /\ UNCHANGED <<inputs, docs, dest_dir, clock, image_url_records,
                 existing_filename_roots, assigned, queue, groups, plan_summary,
                 execution_summary>>

\* execute, lines 306-311: the next record of the file
RewriteSub ==
  /\ pc = "replace"
  /\ cur # <<>>
  /\ LET filepath == Head(groups).filepath
         img == image_url_records[Head(cur)]
         k == get_file_occurrence(img, filepath)
         replacement == <<"(">> \o path_join(markdown_dest_dir, local_filename(img)) \o <<")">>
     IN IF img.download_successful /\ ~replacement_unsafe(img.file_occurrences[k])
        THEN /\ md_source' = re_sub(img.url, replacement, md_source, 1)
             /\ image_url_records' =
                  [image_url_records EXCEPT
                     ![img.url].file_occurrences[k].replace_successful = TRUE]
             /\ trace' = Append(trace, Event("sub", filepath, img.url,
                                             re_findall_count(img.url, md_source, 1)))
        ELSE UNCHANGED <<md_source, image_url_records, trace>>
  /\ cur' = Tail(cur)
  /\ UNCHANGED <<pc, inputs, docs, dest_dir, clock, existing_filename_roots, assigned,
                 queue, groups, plan_summary, execution_summary>>

\* execute, lines 313-314: the rewritten text is written back
RewriteWrite ==
  /\ pc = "replace"
  /\ cur = <<>>
  /\ docs' = [docs EXCEPT ![Head(groups).filepath] = md_source]
  /\ trace' = Append(trace, Event("write", Head(groups).filepath, <<>>, 0))
  /\ groups' = Tail(groups)
  /\ md_source' = <<>>
  /\ pc' = "rewrite"
  /\ UNCHANGED <<inputs, dest_dir, clock, image_url_records, existing_filename_roots,
                 assigned, queue, cur, plan_summary, execution_summary>>

\* main after execute: the execution summary is built, printed and written
WriteSummary ==
  /\ pc = "rewrite"
  /\ groups = <<>>
  /\ execution_summary' = get_execution_summary_string(image_url_records)
  /\ pc' = "done"
  /\ UNCHANGED <<inputs, docs, dest_dir, clock, image_url_records,
                 existing_filename_roots, assigned, queue, groups, md_source, cur,
                 plan_summary, trace>>

Next ==
  \/ Tick
  \/ AnalyzeFile
  \/ AssignInit
  \/ AssignNext
  \/ WritePlan
  \/ Download
  \/ BeginRewrite
  \/ RewriteOpen
  \/ RewriteSub
  \/ RewriteWrite
  \/ WriteSummary

\* a whole run of main
Spec == Init /\ [][Next]_vars

(***************************************************************************)
(* One transformer, any existing filenames, any calls                      *)
(***************************************************************************)
InitUniq ==
  /\ pc = "uniq"
  /\ dry_run = TRUE
  /\ md_filepaths = <<>>
  /\ url_substring_filters = <<>>
  /\ docs = [p \in Paths |-> <<>>]
  /\ dest_dir \in SUBSET ExistingPool
  /\ clock = 1
  /\ image_url_records = NoRecords
  /\ existing_filename_roots = existing_roots_of(dest_dir)
  /\ assigned = <<>>
  /\ queue = <<>>
  /\ groups = <<>>
  /\ md_source = <<>>
  /\ cur = <<>>
  /\ plan_summary = <<>>
  /\ execution_summary = <<>>
  /\ trace = <<>>

\* one call of assign_uniquified_filename
UniqAssign ==
  /\ pc = "uniq"
  /\ Len(assigned) < MaxCalls
  /\ \E filename \in Filenames :
       Assigned(filename, assign_uniquified_filename(filename))
  /\ UNCHANGED <<pc, inputs, docs, dest_dir, clock, image_url_records, queue, groups,
                 md_source, cur, plan_summary, execution_summary, trace>>

NextUniq ==
  \/ Tick
  \/ UniqAssign

SpecUniq == InitUniq /\ [][NextUniq]_vars

(***************************************************************************)
(* The analysis of one document, every form of reference                   *)
(***************************************************************************)
InitAnalyze ==
  /\ pc = "analyze"
  /\ dry_run = TRUE
  /\ md_filepaths = <<D1>>
  /\ url_substring_filters \in FilterInputs
  /\ \E t1 \in AnalyzerTexts :
       docs = [p \in Paths |-> IF p = D1 THEN t1 ELSE <<>>]
  /\ dest_dir = {}
  /\ clock = 1
  /\ image_url_records = NoRecords
  /\ existing_filename_roots = {}
  /\ assigned = <<>>
  /\ queue = md_filepaths
  /\ groups = <<>>
  /\ md_source = <<>>
  /\ cur = <<>>
  /\ plan_summary = <<>>
  /\ execution_summary = <<>>
  /\ trace = <<>>

NextAnalyze == AnalyzeFile

SpecAnalyze == InitAnalyze /\ [][NextAnalyze]_vars

(***************************************************************************)
(* The claims                                                              *)
(***************************************************************************)
Urls == DOMAIN image_url_records
FilteredIn == {u \in Urls : image_url_records[u].passes_filters}
\* the files a url occurs in
FilesOf(u) == {image_url_records[u].file_occurrences[i].filepath :
                 i \in 1..Len(image_url_records[u].file_occurrences)}
\* the record of the pair (u, filepath), as get_file_occurrence finds it
Pair(u, filepath) ==
  image_url_records[u].file_occurrences[get_file_occurrence(image_url_records[u], filepath)]
Executed == pc = "done" /\ ~dry_run
TraceIdx(op) == {i \in 1..Len(trace) : trace[i].op = op}

\* C1: after execute, a filtered-in (url, document) pair is replaced if and
\* only if the download of the url succeeded and the pair's
\* num_extra_textual_occurrences is 0, whatever the counts are.
C1_ReplacedIffDownloadedAndNoExtra ==
  Executed =>
    \A u \in FilteredIn : \A f \in FilesOf(u) :
      Pair(u, f).replace_successful <=>
        (image_url_records[u].download_successful
         /\ Pair(u, f).num_extra_textual_occurrences = 0)

\* C2: for every analysed document and every url reported for it, the number
\* of image elements is at most the number of matches of the url's pattern
\* in the text, so num_extra_textual_occurrences is never negative.
C2_ImageCountAtMostTextualCount ==
  \A u \in Urls : \A i \in 1..Len(image_url_records[u].file_occurrences) :
    LET occ == image_url_records[u].file_occurrences[i]
    IN /\ occ.num_image_elements <= re_findall_count(u, docs[occ.filepath], 1)
       /\ occ.num_extra_textual_occurrences >= 0

\* C3: a url that does not pass the filters never gets a local filename, is
\* never fetched, is never substituted in any document (its matches stay in
\* the text as the analysis counted them) and is in neither report.
C3_FilteredOutUntouched ==
  \A u \in Urls \ FilteredIn :
    LET img == image_url_records[u]
    IN /\ img.local_basename = <<>>
       /\ img.local_ext = <<>>
       /\ ~img.download_successful
       /\ \A i \in 1..Len(trace) : trace[i].url # u
       /\ \A i \in 1..Len(img.file_occurrences) :
            LET occ == img.file_occurrences[i]
            IN /\ ~occ.replace_successful
               /\ re_findall_count(u, docs[occ.filepath], 1)
                    = occ.num_image_elements + occ.num_extra_textual_occurrences
       /\ \A i \in 1..Len(plan_summary) : plan_summary[i].url # u
       /\ \A i \in 1..Len(execution_summary) : execution_summary[i].url # u
       /\ u \notin Range(queue) \cup Range(cur)

\* C3's case: a run that executed, with a url that was filtered out beside
\* one that was replaced in the same file
C3_Witness ==
  /\ Executed
  /\ \E u \in Urls \ FilteredIn, v \in FilteredIn :
       \E f \in FilesOf(u) \cap FilesOf(v) : Pair(v, f).replace_successful

\* a root without its trailing "_<suffix>"
StripSuffix(root) == SubSeq(root, 1, LastIndexOf(root, "_") - 1)
\* the timestamp token of a root: what stands before the suffix
TokenOf(root) ==
  LET stem == StripSuffix(root)
  IN SubSeq(stem, LastIndexOf(stem, "_") + 1, Len(stem))
Calls == 1..Len(assigned)
RootsDistinctAndNew ==
  /\ \A i, j \in Calls : i # j => assigned[i].root # assigned[j].root
  /\ \A i \in Calls : assigned[i].root \notin existing_roots_of(dest_dir)

C5_LongerUrlFirst ==
  /\ \A i, j \in TraceIdx("sub") :
       (i < j /\ trace[i].path = trace[j].path)
         => Len(trace[i].url) >= Len(trace[j].url)
  /\ pc = "replace" =>
       \A i \in TraceIdx("sub") : \A k \in 1..Len(cur) :
         trace[i].path = Head(groups).filepath => Len(trace[i].url) >= Len(cur[k])

\* C5's case: one document in which a url and a proper prefix of it were
\* both substituted
C5_Witness ==
  \E i, j \in TraceIdx("sub") :
    /\ i < j
    /\ trace[i].path = trace[j].path
    /\ trace[i].n > 0 /\ trace[j].n > 0
    /\ Len(trace[j].url) < Len(trace[i].url)
    /\ StartsWith(trace[i].url, trace[j].url)

C7_FlagMeansTextChanged ==
  \A u \in Urls : \A f \in FilesOf(u) :
    Pair(u, f).replace_successful =>
      \E i \in TraceIdx("sub") :
        trace[i].path = f /\ trace[i].url = u /\ trace[i].n > 0

FetchesAscending ==
  \A i, j \in TraceIdx("fetch") : i < j => StrLess(trace[i].url, trace[j].url)
DownloadsBeforeRewrite ==
  \A i \in TraceIdx("open") :
    /\ \A u \in FilteredIn : \E j \in TraceIdx("fetch") : j < i /\ trace[j].url = u
    /\ \A j \in TraceIdx("fetch") : j < i
DownloadResultsFinal ==
  pc \in {"rewrite", "replace"} =>
    \A u \in Urls :
      /\ image_url_records'[u].download_successful = image_url_records[u].download_successful
      /\ image_url_records'[u].local_ext = image_url_records[u].local_ext

\* C8: every filtered-in url is fetched, in ascending url order, before the
\* first document is opened for rewriting; no fetch follows an open; and
\* from then on download_successful and local_ext of no record change.
C8_DownloadsBeforeRewrite ==
  /\ [](FetchesAscending /\ DownloadsBeforeRewrite)
  /\ [][DownloadResultsFinal]_vars

\* C8's case: two urls were fetched and a document was rewritten and written
C8_Witness ==
  /\ Cardinality(TraceIdx("fetch")) >= 2
  /\ \E i \in TraceIdx("sub") : trace[i].n > 0
  /\ TraceIdx("write") # {}

C10_NoSpaceInRoot ==
  \A i \in Calls :
    /\ " " \notin Range(assigned[i].root)
    /\ StartsWith(assigned[i].root,
                  Replace(splitext(assigned[i].filename)[1], " ", <<"_">>))

\* C11: a failed download attempt (the fetch returns a status other than
\* 200, or the extension is unknown and sniffing the bytes finds no image
\* type) leaves the record as it was: download_successful stays false,
\* local_ext keeps its value, and no file is written to the destination.
C11_FailedDownloadLeavesRecord ==
  [][(pc = "download" /\ Len(trace') > Len(trace)) =>
       LET u == Head(queue)
           calls == {trace'[i] : i \in (Len(trace) + 1)..Len(trace')}
           failed == \E e \in calls : \/ e.op = "fetch" /\ e.n # 200
                                      \/ e.op = "sniff" /\ e.n = 0
       IN failed => /\ ~image_url_records'[u].download_successful
                    /\ image_url_records'[u].local_ext = image_url_records[u].local_ext
                    /\ image_url_records' = image_url_records
                    /\ dest_dir' = dest_dir]_vars

\* C11's case: one fetch with a known extension returned 404, the bytes of
\* another download held no image type, and neither record is marked
C11_Witness ==
  \E i, j \in DOMAIN trace :
    /\ trace[i].op = "fetch" /\ trace[i].n = 404
    /\ image_url_records[trace[i].url].local_ext # <<>>
    /\ ~image_url_records[trace[i].url].download_successful
    /\ trace[j].op = "sniff" /\ trace[j].n = 0
    /\ image_url_records[trace[j].url].local_ext = <<>>
    /\ ~image_url_records[trace[j].url].download_successful

\* the documents of the input sequence that hold an image with destination u
DocumentsHolding(u) ==
  {p \in Range(md_filepaths) : u \in DOMAIN get_image_url_counts(docs[p])}

\* C12: once the plan is built, the store holds exactly one ImageUrlRecord
\* per distinct image url of the documents, and each record's
\* file_occurrences holds exactly one entry per document holding the url, no
\* two of them with the same filepath, also when a path is supplied twice.
C12_OneOccurrencePerDocument ==
  pc = "assign" =>
    /\ Urls = UNION {DOMAIN get_image_url_counts(docs[p]) : p \in Range(md_filepaths)}
    /\ \A u \in Urls :
         LET occurrences == image_url_records[u].file_occurrences
         IN /\ image_url_records[u].url = u
            /\ FilesOf(u) = DocumentsHolding(u)
            /\ \A i, j \in 1..Len(occurrences) :
                 occurrences[i].filepath = occurrences[j].filepath => i = j

====
